---- MODULE Spec2Model ----
(***************************************************************************)
(* A model of the circuit breaker of src/main.go: the CircuitBreaker       *)
(* struct, its constructor, and Call with the four lock-protected methods  *)
(* it runs (setActualState, getState, onSuccess, onError).  Every method   *)
(* holds c.mu for its whole body, so each is one atomic step; the service  *)
(* itself runs outside the lock, between getState and onSuccess/onError.   *)
(***************************************************************************)
EXTENDS Integers, Sequences, FiniteSets, TLC

(* ------------------------------ bounds -------------------------------- *)
RecordLength == 3
RecoveryRequests == 1
Timeout == 1
MaxTime == 4

\* The callers: two goroutines that run Call concurrently, again and again.
Threads == {1, 2}

(* ----------------------- Status (main.go:12-16) ----------------------- *)
CLOSED == 1
OPEN == 2
HALFOPEN == 3

(* The zero time.Time of a field the constructor does not set: earlier     *)
(* than every instant of the clock by more than any timeout.               *)
ZeroTime == 0 - (MaxTime + Timeout + 1)

(* Errors: nil, the service's error, and the error Call makes when OPEN.   *)
Nil == "nil"
ServiceError == "service error"
CBIsOpen == "CB IS OPEN"
None == "none"

VARIABLES
    proc,      \* "init" before construction, "running", "panicked"
    cb,        \* the CircuitBreaker struct
    now,       \* the clock read by time.Now / time.Since
    pc,        \* per caller: position inside Call
    began,     \* per caller: the branch its setActualState took
    seen,      \* per caller: the Status its getState returned
    err,       \* per caller: what its service() returned
    ret,       \* per caller: the error its Call returns
    invoked,   \* per caller: service invocations of the current Call
    recorded,  \* per caller: buffer writes of the current Call
    last,      \* the latest lock-protected mutation and the struct before it
    recent     \* outcomes recorded since the buffer was last made, newest last

vars == <<proc, cb, now, pc, began, seen, err, ret, invoked, recorded, last, recent>>

(* ------------------------- pure helpers ------------------------------- *)

\* make([]bool, n): n zero values, indexed from 0.
MakeBuffer(n) == [i \in 0..(n - 1) |-> FALSE]

\* The loop of setActualState's CLOSED case: count the true slots.
RECURSIVE CountFrom(_, _, _)
CountFrom(buf, i, n) ==
    IF i >= n THEN 0
    ELSE (IF buf[i] THEN 1 ELSE 0) + CountFrom(buf, i + 1, n)

FailureCount(c) == CountFrom(c.buffer, 0, c.recordLength)

\* float64(failureCount)/float64(recordLength) >= percentile, the percentile
\* being the rational p[1]/p[2] with p[2] > 0; 0/0 is NaN, and NaN >= x is false.
ReachesPercentileGT(fc, n, p) == IF n = 0 THEN FALSE ELSE fc * p[2] > p[1] * n
ReachesPercentileIntDiv(fc, n, p) ==
    IF n = 0 THEN FALSE ELSE (fc \div n) * p[2] >= p[1]
ReachesPercentile(fc, n, p) == IF n = 0 THEN FALSE ELSE fc * p[2] >= p[1] * n

\* time.Since(lastAttemptedAt) > timeout
TimeoutElapsedGE(c, t) == t - c.lastAttemptedAt >= c.timeout
TimeoutElapsedLate(c, t) == t - c.lastAttemptedAt > c.timeout + 1
TimeoutElapsed(c, t) == t - c.lastAttemptedAt > c.timeout

\* successCount > recoveryRequests
RecoveredGE(c) == c.successCount >= c.recoveryRequests
Recovered(c) == c.successCount > c.recoveryRequests

\* (pos + 1) % recordLength
NextPosNoWrap(c) == c.pos + 1
NextPosStuck(c) == c.pos
NextPos(c) == (c.pos + 1) % c.recordLength

(* --------------------------- the methods ------------------------------ *)

NewCircuitBreaker(recordLength, timeout, percentile, recoveryRequests) ==
    [ state            |-> CLOSED,
      recordLength     |-> recordLength,
      timeout          |-> timeout,
      percentile       |-> percentile,
      lastAttemptedAt  |-> ZeroTime,
      buffer           |-> MakeBuffer(recordLength),
      pos              |-> 0,
      recoveryRequests |-> recoveryRequests,
      successCount     |-> 0 ]

ResetOnCloseKeepsBuffer(c) ==
    [c EXCEPT !.state = CLOSED, !.pos = 0, !.successCount = 0]
ResetOnClose(c) ==
    [c EXCEPT !.state = CLOSED,
              !.buffer = MakeBuffer(c.recordLength),
              !.pos = 0,
              !.successCount = 0]

SetActualStateRearms(c, t) ==
    CASE c.state = OPEN ->
            IF TimeoutElapsed(c, t) THEN [c EXCEPT !.state = HALFOPEN]
            ELSE [c EXCEPT !.lastAttemptedAt = t]
      [] c.state = HALFOPEN ->
            IF Recovered(c) THEN ResetOnClose(c) ELSE c
      [] c.state = CLOSED ->
            IF ReachesPercentile(FailureCount(c), c.recordLength, c.percentile)
            THEN [c EXCEPT !.state = OPEN, !.lastAttemptedAt = t]
            ELSE c
\* A switch that falls through from the HALFOPEN case into the CLOSED one.
SetActualStateFallthrough(c, t) ==
    LET r == IF c.state = HALFOPEN /\ Recovered(c) THEN ResetOnClose(c) ELSE c
    IN  CASE c.state = OPEN ->
                IF TimeoutElapsed(c, t) THEN [c EXCEPT !.state = HALFOPEN] ELSE c
          [] c.state = HALFOPEN /\ r.state = HALFOPEN -> c
          [] OTHER ->
                IF ReachesPercentile(FailureCount(r), r.recordLength, r.percentile)
                THEN [r EXCEPT !.state = OPEN, !.lastAttemptedAt = t]
                ELSE r
SetActualState(c, t) ==
    CASE c.state = OPEN ->
            IF TimeoutElapsed(c, t) THEN [c EXCEPT !.state = HALFOPEN] ELSE c
      [] c.state = HALFOPEN ->
            IF Recovered(c) THEN ResetOnClose(c) ELSE c
      [] c.state = CLOSED ->
            IF ReachesPercentile(FailureCount(c), c.recordLength, c.percentile)
            THEN [c EXCEPT !.state = OPEN, !.lastAttemptedAt = t]
            ELSE c

GetState(c) == c.state

\* c.buffer[c.pos] panics when pos is no index of the buffer (recordLength = 0).
IndexPanics(c) == c.pos \notin DOMAIN c.buffer

OnSuccessRecordsFailure(c) ==
    LET w == [c EXCEPT !.buffer[c.pos] = TRUE, !.pos = NextPos(c)]
    IN  IF c.state = HALFOPEN
        THEN [w EXCEPT !.successCount = c.successCount + 1]
        ELSE w
OnSuccessLostUpdate(c) ==
    LET w == [c EXCEPT !.buffer[c.pos] = FALSE]
    IN  IF c.state = HALFOPEN
        THEN [w EXCEPT !.successCount = c.successCount + 1]
        ELSE w
OnSuccessNeverCounts(c) ==
    [c EXCEPT !.buffer[c.pos] = FALSE, !.pos = NextPos(c)]
OnSuccess(c) ==
    LET w == [c EXCEPT !.buffer[c.pos] = FALSE, !.pos = NextPos(c)]
    IN  IF c.state = HALFOPEN
        THEN [w EXCEPT !.successCount = c.successCount + 1]
        ELSE w

OnErrorSkipsOpen(c, t) ==
    LET w == [c EXCEPT !.buffer[c.pos] = TRUE, !.pos = NextPos(c),
                       !.successCount = 0]
    IN  CASE c.state = HALFOPEN -> [w EXCEPT !.state = OPEN, !.lastAttemptedAt = t]
          [] c.state = OPEN     -> w
          [] c.state = CLOSED   -> [w EXCEPT !.lastAttemptedAt = t]
OnErrorKeepsCount(c, t) ==
    LET w == [c EXCEPT !.buffer[c.pos] = TRUE, !.pos = NextPos(c)]
        s == IF c.state = HALFOPEN THEN [w EXCEPT !.state = OPEN] ELSE w
    IN  [s EXCEPT !.lastAttemptedAt = t]
OnErrorTripsEagerly(c, t) ==
    LET w == [c EXCEPT !.buffer[c.pos] = TRUE, !.pos = NextPos(c),
                       !.lastAttemptedAt = t, !.successCount = 0]
    IN  IF c.state = HALFOPEN
           \/ ReachesPercentile(FailureCount(w), w.recordLength, w.percentile)
        THEN [w EXCEPT !.state = OPEN]
        ELSE w
OnErrorStaysHalfOpen(c, t) ==
    [c EXCEPT !.buffer[c.pos] = TRUE, !.pos = NextPos(c),
              !.lastAttemptedAt = t, !.successCount = 0]
OnError(c, t) ==
    LET w == [c EXCEPT !.buffer[c.pos] = TRUE, !.pos = NextPos(c)]
        s == IF c.state = HALFOPEN
             THEN [w EXCEPT !.state = OPEN, !.successCount = 0]
             ELSE w
    IN  [s EXCEPT !.lastAttemptedAt = t, !.successCount = 0]

\* What Call returns after the service returned e: e itself.
CallResultSwallowed(e) == Nil
CallResult(e) == e

(* ------------------------- ghost bookkeeping -------------------------- *)

\* The branch a setActualState took, from the struct before it and the clock.
Branch(c, t) ==
    CASE c.state = OPEN     -> IF t - c.lastAttemptedAt > c.timeout
                               THEN "openExpired" ELSE "openWaiting"
      [] c.state = HALFOPEN -> "halfOpen"
      [] c.state = CLOSED   -> "closed"

Mutation(op, t) == [op |-> op, who |-> t, at |-> now, c |-> cb]

\* The newest at most n outcomes, oldest first.
Trim(s, n) == IF Len(s) > n THEN SubSeq(s, Len(s) - n + 1, Len(s)) ELSE s

(* ------------------------------ actions ------------------------------- *)

\* The arguments main passes are of this shape: a positive record length, a
\* percentile in [0, 1], a positive number of recovery requests.
Percentiles == { <<k, RecordLength>> : k \in {0, 1, RecordLength - 1, RecordLength} }
ValidArgs ==
    { <<RecordLength, Timeout, p, RecoveryRequests>> : p \in Percentiles }

\* What a caller of the unvalidated constructor can pass.
AnyArgs ==
    ValidArgs \cup
    { <<n, Timeout, p, RecoveryRequests>> :
          n \in {0 - 1, 0, RecordLength},
          p \in {<<0 - 1, 2>>, <<1, 2>>, <<3, 2>>} }

IdleCallers ==
    /\ pc = [t \in Threads |-> "idle"]
    /\ began = [t \in Threads |-> None]
    /\ seen = [t \in Threads |-> 0]
    /\ err = [t \in Threads |-> None]
    /\ ret = [t \in Threads |-> None]
    /\ invoked = [t \in Threads |-> 0]
    /\ recorded = [t \in Threads |-> 0]

Init ==
    /\ proc = "running"
    /\ \E a \in ValidArgs : cb = NewCircuitBreaker(a[1], a[2], a[3], a[4])
    /\ now = 0
    /\ IdleCallers
    /\ last = [op |-> "NewCircuitBreaker", who |-> 0, at |-> 0, c |-> cb]
    /\ recent = <<>>

InitNew ==
    /\ proc = "init"
    /\ cb = NewCircuitBreaker(0, 0, <<0, 1>>, 0)
    /\ now = 0
    /\ IdleCallers
    /\ last = [op |-> None, who |-> 0, at |-> 0, c |-> cb]
    /\ recent = <<>>

\* main.go:40-51.  make([]bool, n) panics for n < 0; nothing else is checked.
Construct ==
    /\ proc = "init"
    /\ \E a \in AnyArgs :
          IF a[1] < 0
          THEN /\ proc' = "panicked"
               /\ UNCHANGED <<cb, last>>
          ELSE /\ proc' = "running"
               /\ cb' = NewCircuitBreaker(a[1], a[2], a[3], a[4])
               /\ last' = [op |-> "NewCircuitBreaker", who |-> 0, at |-> now, c |-> cb']
    /\ UNCHANGED <<now, pc, began, seen, err, ret, invoked, recorded, recent>>

Tick ==
    /\ proc = "running"
    /\ now < MaxTime
    /\ now' = now + 1
    /\ UNCHANGED <<proc, cb, pc, began, seen, err, ret, invoked, recorded, last, recent>>

\* Call, line 54: c.setActualState().  A caller starts a Call when it is in
\* no Call; the locals of its previous Call are dropped then.
Begin(t) ==
    /\ proc = "running"
    /\ pc[t] \in {"idle", "returned"}
    /\ cb' = SetActualState(cb, now)
    /\ pc' = [pc EXCEPT ![t] = "getState"]
    /\ began' = [began EXCEPT ![t] = Branch(cb, now)]
    /\ seen' = [seen EXCEPT ![t] = 0]
    /\ err' = [err EXCEPT ![t] = None]
    /\ ret' = [ret EXCEPT ![t] = None]
    /\ invoked' = [invoked EXCEPT ![t] = 0]
    /\ recorded' = [recorded EXCEPT ![t] = 0]
    /\ last' = Mutation("setActualState", t)
    /\ recent' = IF cb.state = HALFOPEN /\ cb'.state = CLOSED THEN <<>> ELSE recent
    /\ UNCHANGED <<proc, now>>

\* Call, lines 56-58: if c.getState() == OPEN { return errors.New("CB IS OPEN") }
Gate(t) ==
    /\ proc = "running"
    /\ pc[t] = "getState"
    /\ seen' = [seen EXCEPT ![t] = GetState(cb)]
    /\ IF GetState(cb) = OPEN
       THEN /\ pc' = [pc EXCEPT ![t] = "returned"]
            /\ ret' = [ret EXCEPT ![t] = CBIsOpen]
       ELSE /\ pc' = [pc EXCEPT ![t] = "service"]
            /\ ret' = ret
    /\ UNCHANGED <<proc, cb, now, began, err, invoked, recorded, last, recent>>

\* Call, lines 60-64: err = service() returns an error (outside the lock, it
\* touches nothing of the breaker); c.onError(); return err
ServiceFailsWith(t, e) ==
    /\ proc = "running"
    /\ pc[t] = "service"
    /\ err' = [err EXCEPT ![t] = e]
    /\ invoked' = [invoked EXCEPT ![t] = invoked[t] + 1]
    /\ IF IndexPanics(cb)
       THEN /\ proc' = "panicked"
            /\ UNCHANGED <<cb, pc, ret, recorded, last, recent>>
       ELSE /\ cb' = OnError(cb, now)
            /\ pc' = [pc EXCEPT ![t] = "returned"]
            /\ ret' = [ret EXCEPT ![t] = CallResult(err'[t])]
            /\ recorded' = [recorded EXCEPT ![t] = recorded[t] + 1]
            /\ last' = Mutation("onError", t)
            /\ recent' = Trim(Append(recent, TRUE), cb.recordLength)
            /\ proc' = proc
    /\ UNCHANGED <<now, began, seen>>

ServiceFails(t) == ServiceFailsWith(t, ServiceError)

\* The service is any func() error: it may return errors.New("CB IS OPEN")
\* itself.  An error made by errors.New has nothing a caller can tell it by
\* but its text (no exported value, no type of its own), so it is its text.
ServiceFailsAsOpen(t) == ServiceFailsWith(t, CBIsOpen)

\* Call, lines 60-68: err = service() returns nil; c.onSuccess(); return nil
ServiceSucceeds(t) ==
    /\ proc = "running"
    /\ pc[t] = "service"
    /\ err' = [err EXCEPT ![t] = Nil]
    /\ invoked' = [invoked EXCEPT ![t] = invoked[t] + 1]
    /\ IF IndexPanics(cb)
       THEN /\ proc' = "panicked"
            /\ UNCHANGED <<cb, pc, ret, recorded, last, recent>>
       ELSE /\ cb' = OnSuccess(cb)
            /\ pc' = [pc EXCEPT ![t] = "returned"]
            /\ ret' = [ret EXCEPT ![t] = Nil]
            /\ recorded' = [recorded EXCEPT ![t] = recorded[t] + 1]
            /\ last' = Mutation("onSuccess", t)
            /\ recent' = Trim(Append(recent, FALSE), cb.recordLength)
            /\ proc' = proc
    /\ UNCHANGED <<now, began, seen>>

Next ==
    \/ Tick
    \/ \E t \in Threads : Begin(t)
    \/ \E t \in Threads : Gate(t)
    \/ \E t \in Threads : ServiceFails(t)
    \/ \E t \in Threads : ServiceSucceeds(t)

NextNew == Construct \/ Next

NextErr ==
    \/ Next
    \/ \E t \in Threads : ServiceFailsAsOpen(t)

Spec == Init /\ [][Next]_vars

SpecNew == InitNew /\ [][NextNew]_vars

SpecErr == Init /\ [][NextErr]_vars

\* The breaker of the worked scenario: NewCircuitBreaker(4, 2s, 0.5, 1).
ScenarioArgs == <<4, 2, <<1, 2>>, 1>>

InitScenario ==
    /\ proc = "running"
    /\ cb = NewCircuitBreaker(ScenarioArgs[1], ScenarioArgs[2],
                              ScenarioArgs[3], ScenarioArgs[4])
    /\ now = 0
    /\ IdleCallers
    /\ last = [op |-> "NewCircuitBreaker", who |-> 0, at |-> 0, c |-> cb]
    /\ recent = <<>>

SpecScenario == InitScenario /\ [][Next]_vars

\* The clock past MaxTime.  Only the differences now - lastAttemptedAt are ever
\* read (time.Since), and only against the timeout, so when now = MaxTime a
\* further unit of time is the same as every timestamp one unit older; one
\* already more than the timeout old stays as it is.
Aged(x) == IF now - x > cb.timeout THEN x ELSE x - 1

TickShift ==
    /\ proc = "running"
    /\ now = MaxTime
    /\ cb' = [cb EXCEPT !.lastAttemptedAt = Aged(@)]
    /\ last' = [last EXCEPT !.at = Aged(@), !.c.lastAttemptedAt = Aged(@)]
    /\ UNCHANGED <<proc, now, pc, began, seen, err, ret, invoked, recorded, recent>>

NextLive == Next \/ TickShift

\* Time keeps advancing; every caller keeps calling, each of its locked steps
\* is taken in the end (sync.Mutex hands the lock over) and the service returns.
Fairness ==
    /\ WF_vars(Tick \/ TickShift)
    /\ \A t \in Threads :
          /\ WF_vars(Begin(t))
          /\ WF_vars(Gate(t))
          /\ WF_vars(ServiceFails(t) \/ ServiceSucceeds(t))

SpecLive == Init /\ [][NextLive]_vars /\ Fairness

(* ------------------------------ claims -------------------------------- *)

\* Operators of the statements below, written apart from the methods.
Elapsed(m) == m.at - m.c.lastAttemptedAt
Failures(c) == Cardinality({i \in DOMAIN c.buffer : c.buffer[i]})
AtThreshold(c) == Failures(c) * c.percentile[2] >= c.percentile[1] * c.recordLength
Rejected(t) == pc[t] = "returned" /\ ret[t] = CBIsOpen
Recording == last.op \in {"onError", "onSuccess"}
Evaluating == last.op = "setActualState"

\* C1: while the breaker is OPEN and the time since lastAttemptedAt is at most
\* the timeout (equality included), a Call's setActualState leaves the breaker
\* as it is, a Call whose getState reads OPEN returns "CB IS OPEN" without
\* invoking the service or writing the buffer, and a Call that began in that
\* condition with no other mutation since is rejected.
C1_OpenRejects ==
    /\ (Evaluating /\ last.c.state = OPEN /\ Elapsed(last) <= last.c.timeout)
          => cb = last.c
    /\ \A t \in Threads :
          /\ seen[t] = OPEN
                => Rejected(t) /\ invoked[t] = 0 /\ recorded[t] = 0 /\ err[t] = None
          /\ (began[t] = "openWaiting" /\ Evaluating /\ last.who = t
                /\ pc[t] # "getState")
                => Rejected(t) /\ invoked[t] = 0

C1_Witness ==
    \E t \in Threads :
        /\ Rejected(t) /\ began[t] = "openWaiting" /\ seen[t] = OPEN
        /\ Evaluating /\ last.who = t
        /\ Elapsed(last) = last.c.timeout

\* C2: each evaluation of the CLOSED state moves the breaker to OPEN exactly
\* when failures / recordLength >= percentile (also at equality), and leaves
\* it CLOSED and unchanged when the ratio is strictly below.
C2_TripIffAtThreshold ==
    (Evaluating /\ last.c.state = CLOSED)
        => /\ (cb.state = OPEN) <=> AtThreshold(last.c)
           /\ ~AtThreshold(last.c) => cb = last.c

C2_Witness ==
    /\ Evaluating /\ last.c.state = CLOSED /\ cb.state = OPEN
    /\ Failures(last.c) > 0
    /\ Failures(last.c) * last.c.percentile[2]
          = last.c.percentile[1] * last.c.recordLength

\* C3 as stated: when a Call admitted in CLOSED has recorded its outcome and
\* the window ratio is then at the threshold, the breaker is OPEN when that
\* Call returns, lastAttemptedAt being the time of that Call.
C3_TripsWhenCallReturns ==
    \A t \in Threads :
        (pc[t] = "returned" /\ seen[t] = CLOSED /\ Recording /\ last.who = t
            /\ AtThreshold(cb))
        => cb.state = OPEN /\ cb.lastAttemptedAt = last.at

\* C3 as amended: recording an outcome in CLOSED never changes the state,
\* whatever the ratio then is; the breaker turns OPEN in the setActualState of
\* a later Call that finds it CLOSED with the ratio at the threshold, and
\* lastAttemptedAt is the time of that evaluation.
C3_TripsAtNextEvaluation ==
    /\ (Recording /\ last.c.state = CLOSED) => cb.state = CLOSED
    /\ (Evaluating /\ last.c.state = CLOSED /\ AtThreshold(last.c))
          => cb = [last.c EXCEPT !.state = OPEN, !.lastAttemptedAt = last.at]

C3_Witness ==
    \E t \in Threads :
        /\ pc[t] = "returned" /\ seen[t] = CLOSED /\ last.who = t
        /\ last.op = "onError" /\ last.c.state = CLOSED
        /\ ~AtThreshold(last.c) /\ AtThreshold(cb)
        /\ cb.state = CLOSED

\* C4 as stated: a Call that begins with the breaker OPEN and the timeout
\* elapsed is never rejected, whatever other Calls are in flight.
C4_ProbeAlwaysAdmitted ==
    \A t \in Threads : began[t] = "openExpired" => ~Rejected(t)

\* C4 as amended: a Call that begins with the breaker OPEN and the timeout
\* elapsed moves it to HALFOPEN in its setActualState; it invokes the service
\* exactly when its getState does not read OPEN; and with no other mutation
\* between the two (sequential Calls) it reads HALFOPEN and invokes the service.
C4_ProbeAdmittedUnlessReopened ==
    /\ (Evaluating /\ last.c.state = OPEN /\ Elapsed(last) > last.c.timeout)
          => cb = [last.c EXCEPT !.state = HALFOPEN]
    /\ \A t \in Threads :
          began[t] = "openExpired" =>
             /\ pc[t] = "returned" =>
                   \/ seen[t] = OPEN /\ Rejected(t) /\ invoked[t] = 0
                   \/ seen[t] # OPEN /\ ~Rejected(t) /\ invoked[t] = 1
             /\ (Evaluating /\ last.who = t /\ pc[t] # "getState")
                   => seen[t] = HALFOPEN /\ pc[t] # "returned"

C4_Witness ==
    \E t \in Threads :
        /\ began[t] = "openExpired" /\ seen[t] = HALFOPEN
        /\ pc[t] = "returned" /\ invoked[t] = 1

C6_HalfOpenFailureReopens ==
    (last.op = "onError" /\ last.c.state = HALFOPEN)
        => /\ cb.state = OPEN
           /\ cb.lastAttemptedAt = last.at
           /\ cb.successCount = 0

C6_Witness ==
    /\ last.op = "onError" /\ last.c.state = HALFOPEN
    /\ last.c.successCount > 0
    /\ cb.state = OPEN

\* C7: after the step from HALFOPEN to CLOSED every slot of the buffer is a
\* success, pos is 0 and successCount is 0.
C7_CloseResetsWindow ==
    (last.c.state = HALFOPEN /\ cb.state = CLOSED)
        => /\ DOMAIN cb.buffer = 0..(cb.recordLength - 1)
           /\ \A i \in DOMAIN cb.buffer : cb.buffer[i] = FALSE
           /\ cb.pos = 0
           /\ cb.successCount = 0

C7_Witness ==
    /\ last.c.state = HALFOPEN /\ cb.state = CLOSED
    /\ \E i \in DOMAIN last.c.buffer : last.c.buffer[i]
    /\ last.c.pos # 0

\* C8: the buffer holds the outcomes of the newest recordLength recordings
\* since it was made (by the constructor or by the reset on closing), the
\* j-th newest in slot (pos - j) mod recordLength; slots not written since
\* hold success; a recording overwrites only the slot at pos, the oldest.
Slot(j) == (cb.pos + cb.recordLength - j) % cb.recordLength
C8_WindowIsRecentOutcomes ==
    LET k == Len(recent)
    IN  /\ k <= cb.recordLength
        /\ \A j \in 1..k : cb.buffer[Slot(j)] = recent[k - j + 1]
        /\ \A i \in DOMAIN cb.buffer :
              (i \notin {Slot(j) : j \in 1..k}) => cb.buffer[i] = FALSE
        /\ Recording =>
              \A i \in DOMAIN cb.buffer :
                  i # last.c.pos => cb.buffer[i] = last.c.buffer[i]

C8_Witness ==
    /\ cb.recordLength >= 2
    /\ Len(recent) = cb.recordLength
    /\ cb.pos # 0
    /\ last.op = "onSuccess" /\ last.c.buffer[last.c.pos] = TRUE
    /\ \E i \in DOMAIN cb.buffer : cb.buffer[i]

\* C9: a Call that is not rejected has invoked the service exactly once,
\* written exactly one slot of the buffer with that outcome (true for an
\* error), and returns what the service returned.
C9_OneInvocationOneRecord ==
    \A t \in Threads :
        /\ (pc[t] = "returned" /\ ~(seen[t] = OPEN))
              => /\ invoked[t] = 1
                 /\ recorded[t] = 1
                 /\ err[t] \in {Nil, ServiceError}
                 /\ ret[t] = err[t]
        /\ (pc[t] = "returned" /\ Recording /\ last.who = t)
              => /\ (last.op = "onError") <=> (err[t] = ServiceError)
                 /\ cb.buffer = [last.c.buffer EXCEPT
                                   ![last.c.pos] = (err[t] = ServiceError)]
        /\ invoked[t] <= 1 /\ recorded[t] <= invoked[t]

C9_Witness ==
    \E t \in Threads :
        /\ pc[t] = "returned" /\ err[t] = ServiceError /\ ret[t] = ServiceError
        /\ invoked[t] = 1 /\ recorded[t] = 1
        /\ last.op = "onError" /\ last.who = t

\* C10: every breaker the constructor produces has recordLength > 0 and
\* 0 <= percentile <= 1 (construction with other arguments produces none).
C10_OnlyValidBreakers ==
    proc = "running"
        => /\ cb.recordLength > 0
           /\ 0 <= cb.percentile[1]
           /\ cb.percentile[1] <= cb.percentile[2]

\* C11: the error a rejected Call returns differs from every error a Call
\* returns after it invoked the service, so a caller can tell the two apart.
C11_RejectionDistinct ==
    \A t \in Threads :
        (pc[t] = "returned" /\ invoked[t] = 1) => ret[t] # CBIsOpen

\* The run so far is sequential: caller 2 has never called, so every Call was
\* caller 1's, one after the other.
Sequential == pc[2] = "idle"
AllSuccess(buf) == \A i \in DOMAIN buf : buf[i] = FALSE
AfterThree == <<FALSE, TRUE, TRUE>>

\* C12 as stated, for NewCircuitBreaker(4, 2s, 0.5, 1) and sequential Calls:
\* after success, fail, fail the fourth Call is fed to the service too; and
\* the second success in HALFOPEN leaves the breaker CLOSED with the window
\* reset.
C12_ScenarioAsStated ==
    Sequential =>
       /\ (recent = AfterThree /\ Evaluating /\ last.c.state = CLOSED
             /\ pc[1] # "getState")
             => seen[1] # OPEN
       /\ (last.op = "onSuccess" /\ last.c.state = HALFOPEN
             /\ cb.successCount = 2)
             => cb.state = CLOSED /\ AllSuccess(cb.buffer)

\* C12 as amended: after success, fail, fail the breaker is still CLOSED with
\* ratio 2/4; the fourth Call turns it OPEN and is rejected; a Call within 2s
\* is rejected and changes nothing; a Call after more than 2s turns it
\* HALFOPEN and runs the service; its success makes the counter 1 in HALFOPEN;
\* one more success makes it 2 > 1, still HALFOPEN; the Call after that turns
\* the breaker CLOSED with the window [false, false, false, false] and pos 0.
C12_ScenarioAsRun ==
    Sequential =>
       /\ (recent = AfterThree /\ last.op = "onError")
             => cb.state = CLOSED /\ Failures(cb) = 2 /\ cb.pos = 3
       /\ (recent = AfterThree /\ Evaluating /\ last.c.state = CLOSED)
             => /\ cb.state = OPEN /\ cb.lastAttemptedAt = last.at
                /\ pc[1] # "getState" => Rejected(1) /\ invoked[1] = 0
       /\ (recent = AfterThree /\ Evaluating /\ last.c.state = OPEN
             /\ Elapsed(last) <= 2)
             => /\ cb = last.c
                /\ pc[1] # "getState" => Rejected(1) /\ invoked[1] = 0
       /\ (recent = AfterThree /\ Evaluating /\ last.c.state = OPEN
             /\ Elapsed(last) > 2)
             => /\ cb.state = HALFOPEN
                /\ pc[1] # "getState" => seen[1] = HALFOPEN
       /\ (recent = <<FALSE, TRUE, TRUE, FALSE>> /\ last.op = "onSuccess")
             => /\ last.c.state = HALFOPEN
                /\ cb.state = HALFOPEN /\ cb.successCount = 1
       /\ (recent = <<TRUE, TRUE, FALSE, FALSE>> /\ last.op = "onSuccess")
             => /\ last.c.state = HALFOPEN
                /\ cb.state = HALFOPEN /\ cb.successCount = 2
       /\ (Evaluating /\ last.c.state = HALFOPEN /\ last.c.successCount = 2)
             => /\ cb.state = CLOSED /\ AllSuccess(cb.buffer)
                /\ DOMAIN cb.buffer = 0..3 /\ cb.pos = 0 /\ cb.successCount = 0

C12_Witness ==
    /\ Sequential
    /\ Evaluating /\ last.c.state = HALFOPEN /\ last.c.successCount = 2
    /\ last.c.buffer = (0 :> FALSE @@ 1 :> TRUE @@ 2 :> TRUE @@ 3 :> FALSE)
    /\ last.c.pos = 1
    /\ cb.state = CLOSED /\ AllSuccess(cb.buffer)

\* C13: under every interleaving of two callers, a recording writes exactly
\* the slot at pos and moves pos on by one modulo recordLength; nothing else
\* moves pos but the reset on closing, which makes it 0; so the k-th recording
\* since the buffer was made writes slot (k - 1) mod recordLength, and no Call
\* records twice.
C13_NoCursorRace ==
    /\ Recording =>
          /\ cb.pos = (last.c.pos + 1) % cb.recordLength
          /\ cb.buffer = [last.c.buffer EXCEPT
                            ![last.c.pos] = (last.op = "onError")]
    /\ Evaluating =>
          IF last.c.state = HALFOPEN /\ cb.state = CLOSED
          THEN cb.pos = 0
          ELSE cb.pos = last.c.pos /\ cb.buffer = last.c.buffer
    /\ Len(recent) < cb.recordLength => cb.pos = Len(recent)
    /\ \A t \in Threads : recorded[t] <= 1

\* Caller 2 has recorded into the last slot, wrapping pos, while caller 1's
\* Call, begun before, is still at its service.
C13_Witness ==
    /\ pc[1] = "service" /\ pc[2] = "returned"
    /\ Recording /\ last.who = 2 /\ recorded[2] = 1
    /\ last.c.pos = cb.recordLength - 1 /\ cb.pos = 0
    /\ Len(recent) = cb.recordLength

\* C14: successCount is 0 whenever the state is not HALFOPEN, so it is 0 at
\* every entry into HALFOPEN, although the step from OPEN to HALFOPEN changes
\* nothing but the state.
C14_CounterZeroOutsideHalfOpen ==
    /\ cb.state # HALFOPEN => cb.successCount = 0
    /\ (last.c.state # HALFOPEN /\ cb.state = HALFOPEN)
          => /\ cb = [last.c EXCEPT !.state = HALFOPEN]
             /\ cb.successCount = 0

\* A failure has just reopened a HALFOPEN breaker whose counter had already
\* passed recoveryRequests.
C14_Witness ==
    /\ last.op = "onError" /\ last.c.state = HALFOPEN
    /\ last.c.successCount > last.c.recoveryRequests
    /\ cb.state = OPEN /\ cb.successCount = 0

\* C15 as stated: while the state stays OPEN no step of any Call changes
\* lastAttemptedAt.
C15_OpenedAtFixedWhileOpen ==
    (last.c.state = OPEN /\ cb.state = OPEN)
        => cb.lastAttemptedAt = last.c.lastAttemptedAt

\* C15 as amended: every step into OPEN sets lastAttemptedAt to its time;
\* while the state stays OPEN, setActualState and a recorded success leave it
\* as it is, but a failure recorded by a Call admitted earlier sets it to the
\* time of that recording (the OPEN period starts anew); with sequential Calls
\* nothing is recorded while OPEN.
C15_OpenedAtMovedOnlyByFailure ==
    /\ (last.c.state # OPEN /\ cb.state = OPEN) => cb.lastAttemptedAt = last.at
    /\ (Evaluating /\ last.c.state = OPEN /\ cb.state = OPEN) => cb = last.c
    /\ (last.op = "onSuccess" /\ last.c.state = OPEN)
          => cb.state = OPEN /\ cb.lastAttemptedAt = last.c.lastAttemptedAt
    /\ (last.op = "onError" /\ last.c.state = OPEN)
          => cb.state = OPEN /\ cb.lastAttemptedAt = last.at
    /\ Sequential => ~(Recording /\ last.c.state = OPEN)

C15_Witness ==
    /\ last.op = "onError" /\ last.c.state = OPEN /\ cb.state = OPEN
    /\ cb.lastAttemptedAt > last.c.lastAttemptedAt
    /\ seen[last.who] = CLOSED

\* The newest recording since the buffer was made was a success.  When the
\* Calls are sequential and a setActualState finds the breaker CLOSED, this
\* says that the Call before was admitted in CLOSED and succeeded.
LastWasSuccess == recent # <<>> /\ recent[Len(recent)] = FALSE

\* C16 as stated: with sequential Calls and any valid configuration, a success
\* recorded in CLOSED leaves the breaker CLOSED, and the next Call finds it
\* CLOSED, leaves it CLOSED and is admitted.
C16_SuccessKeepsAdmitting ==
    Sequential =>
       /\ (last.op = "onSuccess" /\ last.c.state = CLOSED) => cb.state = CLOSED
       /\ (Evaluating /\ last.c.state = CLOSED /\ LastWasSuccess)
             => /\ cb.state = CLOSED
                /\ pc[1] # "getState" => seen[1] = CLOSED

\* C16 as amended: the same for every configuration with percentile > 0;
\* with percentile = 0 the success still leaves the breaker CLOSED, but the
\* next Call's setActualState (0 >= 0) turns it OPEN and that Call is rejected.
C16_SuccessKeepsAdmittingAboveZero ==
    Sequential =>
       /\ (last.op = "onSuccess" /\ last.c.state = CLOSED) => cb.state = CLOSED
       /\ (Evaluating /\ last.c.state = CLOSED /\ LastWasSuccess) =>
             IF cb.percentile[1] > 0
             THEN /\ cb = last.c
                  /\ pc[1] # "getState" => seen[1] = CLOSED
             ELSE /\ cb.state = OPEN
                  /\ pc[1] # "getState" => Rejected(1)

C16_Witness ==
    /\ Sequential /\ Evaluating /\ last.c.state = CLOSED /\ LastWasSuccess
    /\ cb.percentile[1] > 0 /\ Failures(cb) > 0
    /\ pc[1] = "service" /\ seen[1] = CLOSED

EvaluationSteps == {<<CLOSED, OPEN>>, <<OPEN, HALFOPEN>>, <<HALFOPEN, CLOSED>>}
RecordingSteps == {<<HALFOPEN, OPEN>>}

\* C19: every change of state is CLOSED to OPEN, OPEN to HALFOPEN, HALFOPEN to
\* CLOSED or HALFOPEN to OPEN, never CLOSED to HALFOPEN or OPEN to CLOSED; one
\* setActualState makes at most one of the first three (so never two in a row,
\* which would show as HALFOPEN to OPEN, OPEN to CLOSED or CLOSED to HALFOPEN),
\* only a recorded failure makes the fourth, and a recorded success makes none.
C19_OnlyFourTransitions ==
    LET step == <<last.c.state, cb.state>>
    IN  /\ cb.state \in {CLOSED, OPEN, HALFOPEN}
        /\ step[1] # step[2] => step \in EvaluationSteps \cup RecordingSteps
        /\ step \notin {<<CLOSED, HALFOPEN>>, <<OPEN, CLOSED>>}
        /\ (Evaluating /\ step[1] # step[2]) => step \in EvaluationSteps
        /\ (Recording /\ step[1] # step[2])
              => step \in RecordingSteps /\ last.op = "onError"

\* A setActualState has closed a recovered HALFOPEN breaker whose percentile
\* is 0: the CLOSED test would hold at once, yet the breaker is left CLOSED.
C19_Witness ==
    /\ Evaluating /\ last.c.state = HALFOPEN /\ cb.state = CLOSED
    /\ cb.percentile[1] = 0
    /\ ReachesPercentile(FailureCount(cb), cb.recordLength, cb.percentile)

\* From some point on no service call returns an error.
NoMoreFailures == <>[][~ \E t \in Threads : ServiceFails(t)]_vars

\* C20: when the callers keep calling, time keeps advancing and from some
\* point on every service call succeeds, then from every state the breaker
\* reaches CLOSED again: an OPEN breaker turns HALFOPEN at the first Call
\* after the timeout, a HALFOPEN one closes at the first Call after its
\* successCount has passed recoveryRequests.
C20_NeverBrokenForever == NoMoreFailures => []<>(cb.state = CLOSED)

\* At the end of the clock a breaker that had been opened (its timestamp aged
\* past the timeout) has been closed again by a setActualState.
C20_Witness ==
    /\ now = MaxTime
    /\ Evaluating /\ last.c.state = HALFOPEN /\ cb.state = CLOSED
    /\ cb.lastAttemptedAt # ZeroTime
    /\ now - cb.lastAttemptedAt = cb.timeout + 1
====
